---- MODULE Spec2Model ----
(***************************************************************************)
(* Model of src/src/feat/surf_mlp_featmap.rs (rustface): the SURF feature  *)
(* map engine SurfMlpFeatureMap (gradients, masked 8-channel fill, in      *)
(* place integral image) and its FeaturePool (catalog enumeration).        *)
(*                                                                         *)
(* Buffers (Vec<i32>) are functions over 0..n-1 so that the offsets of the *)
(* source's pointer arithmetic are kept as they are written.  A raw        *)
(* pointer is a pair (buffer, offset).                                     *)
(*                                                                         *)
(* Two specifications share the variables:                                 *)
(*   Spec      one engine, any sequence of compute() calls;                *)
(*   SpecPool  one FeaturePool: add_patch_format, create,                  *)
(*             get_feature_vector_dim, and SurfMlpFeatureMap::new().       *)
(*                                                                         *)
(* With u8 pixels and the image sizes of the model every i32 value is at   *)
(* most 510 * MaxLen in magnitude and every u32 product is small, so the   *)
(* only integer overflow that can occur is `width - 2` at line 96, which   *)
(* compute models.                                                         *)
(***************************************************************************)
EXTENDS Integers, Sequences, FiniteSets

VARIABLES
    \* SurfMlpFeatureMap fields (lines 5-19)
    width, height, length, grad_x, grad_y, int_img, img_buf,
    feature_pool, feature_vectors, feature_vectors_normalized,
    feature_valid_indicators,
    \* the arguments of the latest compute() call
    in_pixels, in_width, in_height,
    \* int_img as mask_integral_channel() leaves it (line 150), before
    \* integral() sums it in place
    int_img_masked,
    \* outcome of the latest engine call, number of compute() calls returned
    status, calls,
    \* position of the pool: "new", "created" or "hang" (create never returns)
    pool_pc,
    \* the latest get_feature_vector_dim() call and its outcome
    query_id, dim_result

engine_vars == <<width, height, length, grad_x, grad_y, int_img, img_buf>>
call_vars == <<in_pixels, in_width, in_height, int_img_masked, status, calls>>
pool_vars == <<feature_pool, feature_vectors, feature_vectors_normalized,
               feature_valid_indicators, pool_pc, query_id, dim_result>>
vars == <<engine_vars, call_vars, pool_vars>>

----------------------------------------------------------------------------
(* Bounds of the model *)

\* compute() is called with at most MaxLen pixels
MaxLen == 6
\* ... and with width and height in 0..MaxDim
MaxDim == 3
\* compute() calls that return, per engine
MaxCalls == 2
\* u8 samples the images are drawn from: black and full scale
PixelVals == {0, 255}
\* the two builds of the crate: overflow checks on (debug) or off (release)
Builds == {"debug", "release"}

\* pools are configured with sample sizes in (MaxSample - 1)..MaxSample,
MaxSample == 4
\* minimum patch sizes in (MaxMin - 1)..MaxMin,
MaxMin == 2
\* move and size steps in 1..MaxStep,
MaxStep == 2
\* and at most MaxFormats patch formats drawn from PatchFormatSet
MaxFormats == 2
\* get_feature_vector_dim is called with ids in 0..MaxId
MaxId == 3

K_NUM_INT_CHANNEL == 8

Empty == [i \in {} |-> 0]
Size(v) == Cardinality(DOMAIN v)

----------------------------------------------------------------------------
(* math:: primitives over (buffer, offset) pointers *)

\* z[i] = x[i] - y[i], i < len
vector_sub(x, xo, y, yo, z, zo, len) ==
    [i \in DOMAIN z |->
        IF zo <= i /\ i < zo + len
        THEN x[xo + (i - zo)] - y[yo + (i - zo)]
        ELSE z[i]]

\* z[i] = x[i] + y[i], i < len
vector_add(x, xo, y, yo, z, zo, len) ==
    [i \in DOMAIN z |->
        IF zo <= i /\ i < zo + len
        THEN x[xo + (i - zo)] + y[yo + (i - zo)]
        ELSE z[i]]

\* dest[i] = |src[i]|, i < len
abs(src, dest, len) ==
    [i \in DOMAIN dest |->
        IF i < len THEN (IF src[i] < 0 THEN 0 - src[i] ELSE src[i]) ELSE dest[i]]

\* dest[i] = src[i] widened, i < len
copy_u8_to_i32(src, dest, len) ==
    [i \in DOMAIN dest |-> IF i < len THEN src[i] ELSE dest[i]]

----------------------------------------------------------------------------
(* SurfMlpFeatureMap *)

\* Vec::resize(n, 0): the first n old elements are kept, new ones are 0
resize(v, n) ==
    [i \in 0..(n - 1) |-> IF i \in DOMAIN v THEN v[i] ELSE 0]

reshape(e, w, h) ==
    LET len == w * h IN
    [e EXCEPT !.width = w, !.height = h, !.length = len,
              !.grad_x = resize(e.grad_x, len),
              !.grad_y = resize(e.grad_y, len),
              !.int_img = resize(e.int_img, len * K_NUM_INT_CHANNEL),
              !.img_buf = resize(e.img_buf, len)]

\* grad_x_row with the last column left as the plain one-sided difference
grad_x_row_undoubled(dx, input, w, r) ==
    LET offset == r * w
        len == w - 2
        d1 == [dx EXCEPT ![offset] = (input[offset + 1] - input[offset]) * 2]
        d2 == vector_sub(input, offset + 2, input, offset, d1, offset + 1, len)
        last == offset + (w - 1)
    IN  [d2 EXCEPT ![last] = input[last] - input[last - 1]]

\* one iteration of the row loop of compute_grad_x (lines 100-109)
grad_x_row(dx, input, w, r) ==
    LET offset == r * w
        len == w - 2
        d1 == [dx EXCEPT ![offset] = (input[offset + 1] - input[offset]) * 2]
        d2 == vector_sub(input, offset + 2, input, offset, d1, offset + 1, len)
        last == offset + (w - 1)
    IN  [d2 EXCEPT ![last] = (input[last] - input[last - 1]) * 2]

RECURSIVE grad_x_rows(_, _, _, _, _)
grad_x_rows(dx, input, w, h, r) ==
    IF r >= h THEN dx
    ELSE grad_x_rows(grad_x_row(dx, input, w, r), input, w, h, r + 1)

\* width >= 2 (width - 2 does not underflow)
compute_grad_x(e) ==
    [e EXCEPT !.grad_x = grad_x_rows(e.grad_x, e.int_img, e.width, e.height, 0)]

\* the loop over the interior rows of compute_grad_y (lines 123-127)
RECURSIVE grad_y_rows(_, _, _, _, _)
grad_y_rows(dy, input, w, h, r) ==
    IF r >= h - 1 THEN dy
    ELSE LET src == (r - 1) * w
             dest == r * w
         IN  grad_y_rows(vector_sub(input, src + 2 * w, input, src, dy, dest, w),
                         input, w, h, r + 1)

\* height >= 2 (no read before the start of int_img)
compute_grad_y(e) ==
    LET input == e.int_img
        w == e.width
        h == e.height
        len == w
        a == vector_sub(input, w, input, 0, e.grad_y, 0, len)
        b == vector_add(a, 0, a, 0, a, 0, len)
        c == grad_y_rows(b, input, w, h, 1)
        offset == (h - 1) * w
        d == vector_sub(input, offset, input, offset - w, c, offset, len)
        f == vector_add(d, offset, d, offset, d, offset, len)
    IN  [e EXCEPT !.grad_y = f]

copy_input(e, input) ==
    [e EXCEPT !.int_img = copy_u8_to_i32(input, e.int_img, e.length)]

compute_gradient_images(e, input) ==
    compute_grad_y(compute_grad_x(copy_input(e, input)))

\* fill_integral_channel without the store to dest.offset(2)
fill_integral_channel_single(img, src, ch, len) ==
    [k \in DOMAIN img |->
        LET i == k \div K_NUM_INT_CHANNEL
            c == k % K_NUM_INT_CHANNEL
        IN  IF i < len /\ c = ch THEN src[i] ELSE img[k]]

\* dest[ch] and dest[ch + 2] of every pixel are set to the pixel's src value
fill_integral_channel(img, src, ch, len) ==
    [k \in DOMAIN img |->
        LET i == k \div K_NUM_INT_CHANNEL
            c == k % K_NUM_INT_CHANNEL
        IN  IF i < len /\ (c = ch \/ c = ch + 2) THEN src[i] ELSE img[k]]

\* the index the masking loop reads its gradients at, for pixel i
mask_index(i) == 1

xor_bits == <<TRUE, TRUE, FALSE, FALSE>>

\* x & (cmp ^ xor_bits[j]) with all-ones written TRUE and zero FALSE
and_mask(x, cmp, j) == IF cmp # xor_bits[j + 1] THEN x ELSE 0

mask_integral_channel(img, gx, gy, len) ==
    [k \in DOMAIN img |->
        LET i == k \div K_NUM_INT_CHANNEL
            c == k % K_NUM_INT_CHANNEL
            dx == gx[mask_index(i)]
            dy == gy[mask_index(i)]
        IN  IF i >= len THEN img[k]
            ELSE IF c < 4 THEN and_mask(img[k], dy < 0, c)
            ELSE and_mask(img[k], dx < 0, c - 4)]

\* the loop of vector_cumulative_add over the columns of the row at x
RECURSIVE cumulative_cols(_, _, _, _, _)
cumulative_cols(img, x, num_channel, cols, i) ==
    IF i >= cols THEN img
    ELSE LET col1 == x + i * num_channel
             col2 == col1 + num_channel
         IN  cumulative_cols(vector_add(img, col1, img, col2, img, col2, num_channel),
                             x, num_channel, cols, i + 1)

\* vector_cumulative_add stopping one column early
vector_cumulative_add_short(img, x, len, num_channel) ==
    LET cols == (len \div num_channel) - 2 IN
    cumulative_cols(img, x, num_channel, cols, 0)

vector_cumulative_add(img, x, len, num_channel) ==
    LET cols == (len \div num_channel) - 1 IN
    cumulative_cols(img, x, num_channel, cols, 0)

\* first loop of integral: row r + 1 += row r
RECURSIVE integral_rows(_, _, _, _)
integral_rows(img, len, h, r) ==
    IF r >= h - 1 THEN img
    ELSE LET row1 == r * len
             row2 == row1 + len
         IN  integral_rows(vector_add(img, row1, img, row2, img, row2, len),
                           len, h, r + 1)

\* second loop of integral: cumulative add along every row
RECURSIVE integral_cols(_, _, _, _)
integral_cols(img, len, h, r) ==
    IF r >= h THEN img
    ELSE integral_cols(vector_cumulative_add(img, r * len, len, K_NUM_INT_CHANNEL),
                       len, h, r + 1)

integral(img, w, h) ==
    LET len == K_NUM_INT_CHANNEL * w IN
    integral_cols(integral_rows(img, len, h, 0), len, h, 0)

\* the four fills of compute_integral_images and the two abs() into img_buf
fill_channels(e) ==
    LET f1 == fill_integral_channel(e.int_img, e.grad_x, 0, e.length)
        f2 == fill_integral_channel(f1, e.grad_y, 4, e.length)
        b1 == abs(e.grad_x, e.img_buf, e.length)
        f3 == fill_integral_channel(f2, b1, 1, e.length)
        b2 == abs(e.grad_y, b1, e.length)
        f4 == fill_integral_channel(f3, b2, 5, e.length)
    IN  [e EXCEPT !.int_img = f4, !.img_buf = b2]

masked_channels(e) ==
    LET f == fill_channels(e) IN
    [f EXCEPT !.int_img = mask_integral_channel(f.int_img, f.grad_x, f.grad_y, f.length)]

compute_integral_images(e) ==
    LET m == masked_channels(e) IN
    [m EXCEPT !.int_img = integral(m.int_img, m.width, m.height)]

\* the argument check rejecting only an image with both dimensions zero
illegal_arguments_both(w, h) == w = 0 /\ h = 0

\* the argument check of compute (line 23)
illegal_arguments(w, h) == w = 0 \/ h = 0

Engine ==
    [width |-> width, height |-> height, length |-> length,
     grad_x |-> grad_x, grad_y |-> grad_y, int_img |-> int_img,
     img_buf |-> img_buf]

\* the per-image fields as SurfMlpFeatureMap::new() sets them (lines 46-60)
NewEngine ==
    [width |-> 0, height |-> 0, length |-> 0,
     grad_x |-> Empty, grad_y |-> Empty, int_img |-> Empty, img_buf |-> Empty]

SetEngine(e) ==
    /\ width' = e.width
    /\ height' = e.height
    /\ length' = e.length
    /\ grad_x' = e.grad_x
    /\ grad_y' = e.grad_y
    /\ int_img' = e.int_img
    /\ img_buf' = e.img_buf

(***************************************************************************)
(* compute(input, w, h).                                                   *)
(*  - w = 0 or h = 0: panics at line 24, before anything is written.       *)
(*  - w = 1: `self.width - 2` (line 96) underflows u32: a panic in a build *)
(*    with overflow checks; without them len = 2^32 - 1 and vector_sub     *)
(*    writes far past the end of grad_x (undefined behaviour).             *)
(*  - h = 1, w >= 2: compute_grad_y reads int_img at offset - width < 0    *)
(*    (line 131): undefined behaviour in either build.                     *)
(*  - otherwise the three stages run to completion.                        *)
(* A panic unwinds out of compute and leaves the fields as they were at    *)
(* that point; after undefined behaviour nothing about the process is      *)
(* known.  Either way the engine is not called again.                      *)
(***************************************************************************)
compute(input, w, h, build) ==
    /\ status \in {"new", "ok"}
    /\ calls < MaxCalls
    /\ in_pixels' = input
    /\ in_width' = w
    /\ in_height' = h
    /\ UNCHANGED pool_vars
    /\ IF illegal_arguments(w, h)
       THEN /\ status' = "InvalidArgument"
            /\ UNCHANGED <<engine_vars, int_img_masked, calls>>
       ELSE LET e1 == reshape(Engine, w, h) IN
            IF w < 2
            THEN /\ status' = (IF build = "debug" THEN "overflow" ELSE "ub")
                 /\ SetEngine(copy_input(e1, input))
                 /\ UNCHANGED <<int_img_masked, calls>>
            ELSE IF h < 2
            THEN /\ status' = "ub"
                 /\ SetEngine(compute_grad_x(copy_input(e1, input)))
                 /\ UNCHANGED <<int_img_masked, calls>>
            ELSE LET e2 == compute_gradient_images(e1, input) IN
                 /\ status' = "ok"
                 /\ calls' = calls + 1
                 /\ int_img_masked' = masked_channels(e2).int_img
                 /\ SetEngine(compute_integral_images(e2))

Images(w, h) == [0..(w * h - 1) -> PixelVals]

Compute ==
    \E w \in 0..MaxDim, h \in 0..MaxDim :
        /\ w * h <= MaxLen
        /\ \E input \in Images(w, h), build \in Builds :
               compute(input, w, h, build)

----------------------------------------------------------------------------
(* FeaturePool *)

FeaturePool_new ==
    [sample_width |-> 0, sample_height |-> 0,
     patch_move_step_x |-> 0, patch_move_step_y |-> 0,
     patch_size_inc_step |-> 0,
     patch_min_width |-> 0, patch_min_height |-> 0,
     features |-> <<>>, patch_formats |-> <<>>]

PatchFormat(w, h, num_cell_per_row, num_cell_per_col) ==
    [width |-> w, height |-> h,
     num_cell_per_row |-> num_cell_per_row,
     num_cell_per_col |-> num_cell_per_col]

add_patch_format(pool, w, h, num_cell_per_row, num_cell_per_col) ==
    [pool EXCEPT !.patch_formats =
        Append(@, PatchFormat(w, h, num_cell_per_row, num_cell_per_col))]

\* the Feature pushed with x and y exchanged in its Rectangle
new_feature_transposed(x, y, w, h, num_cell_per_row, num_cell_per_col) ==
    [patch |-> [x |-> y, y |-> x, width |-> w, height |-> h],
     num_cell_per_row |-> num_cell_per_row,
     num_cell_per_col |-> num_cell_per_col]

\* the Feature pushed by collect_features (lines 311-314)
new_feature(x, y, w, h, num_cell_per_row, num_cell_per_col) ==
    [patch |-> [x |-> x, y |-> y, width |-> w, height |-> h],
     num_cell_per_row |-> num_cell_per_row,
     num_cell_per_col |-> num_cell_per_col]

\* A loop of the source whose variable is not advanced, while its condition
\* holds, repeats the same iteration for ever: the call never returns.
Hang(dest) == [hang |-> TRUE, dest |-> dest]
Done(dest) == [hang |-> FALSE, dest |-> dest]

\* the inner loop of collect_features: x += patch_move_step_x
RECURSIVE collect_x(_, _, _, _, _, _, _, _)
collect_x(pool, x, y, w, h, num_cell_per_row, num_cell_per_col, dest) ==
    IF ~(x <= pool.sample_width - w) THEN Done(dest)
    ELSE LET pushed == Append(dest, new_feature(x, y, w, h, num_cell_per_row,
                                                num_cell_per_col))
         IN  IF pool.patch_move_step_x = 0 THEN Hang(pushed)
             ELSE collect_x(pool, x + pool.patch_move_step_x, y, w, h,
                            num_cell_per_row, num_cell_per_col, pushed)

\* the outer loop of collect_features: y += patch_move_step_y
RECURSIVE collect_y(_, _, _, _, _, _, _)
collect_y(pool, y, w, h, num_cell_per_row, num_cell_per_col, dest) ==
    IF ~(y <= pool.sample_height - h) THEN Done(dest)
    ELSE LET row == collect_x(pool, 0, y, w, h, num_cell_per_row,
                              num_cell_per_col, dest)
         IN  IF row.hang THEN row
             ELSE IF pool.patch_move_step_y = 0 THEN Hang(row.dest)
             ELSE collect_y(pool, y + pool.patch_move_step_y, w, h,
                            num_cell_per_row, num_cell_per_col, row.dest)

collect_features(pool, w, h, num_cell_per_row, num_cell_per_col, dest) ==
    collect_y(pool, 0, w, h, num_cell_per_row, num_cell_per_col, dest)

\* the while loop of the first branch of create (lines 268-278): `continue`
\* skips `h += patch_size_inc_step`
RECURSIVE sweep_height(_, _, _, _)
sweep_height(pool, format, h, dest) ==
    IF ~(h <= pool.sample_height) THEN Done(dest)
    ELSE IF h % format.num_cell_per_col # 0 \/ h % format.height # 0
    THEN Hang(dest)
    ELSE LET w == (h \div format.height) * format.width IN
         IF \/ w % format.num_cell_per_row # 0
            \/ w < pool.patch_min_width
            \/ w > pool.sample_width
         THEN Hang(dest)
         ELSE LET got == collect_features(pool, w, h, format.num_cell_per_row,
                                          format.num_cell_per_col, dest)
              IN  IF got.hang THEN got
                  ELSE IF pool.patch_size_inc_step = 0 THEN Hang(got.dest)
                  ELSE sweep_height(pool, format,
                                    h + pool.patch_size_inc_step, got.dest)

\* the while loop of the second branch of create (lines 285-295)
RECURSIVE sweep_width(_, _, _, _)
sweep_width(pool, format, w, dest) ==
    IF ~(w <= pool.sample_width) THEN Done(dest)
    ELSE IF w % format.num_cell_per_row # 0 \/ w % format.width # 0
    THEN Hang(dest)
    ELSE LET h == (w \div format.width) * format.height IN
         IF \/ h % format.num_cell_per_col # 0
            \/ h < pool.patch_min_height
            \/ h > pool.sample_height
         THEN Hang(dest)
         ELSE LET got == collect_features(pool, w, h, format.num_cell_per_row,
                                          format.num_cell_per_col, dest)
              IN  IF got.hang THEN got
                  ELSE IF pool.patch_size_inc_step = 0 THEN Hang(got.dest)
                  ELSE sweep_width(pool, format,
                                   w + pool.patch_size_inc_step, got.dest)

\* the test that picks the swept dimension (line 265); no underflow as long
\* as the sample is not smaller than the minimum patch
sweeps_height(pool) ==
    pool.sample_height - pool.patch_min_height
        <= pool.sample_width - pool.patch_min_width

\* the for loop over patch_formats, from the k-th format on
RECURSIVE sweep_formats(_, _, _)
sweep_formats(pool, k, dest) ==
    IF k > Len(pool.patch_formats) THEN Done(dest)
    ELSE LET format == pool.patch_formats[k]
             got == IF sweeps_height(pool)
                    THEN sweep_height(pool, format, pool.patch_min_height, dest)
                    ELSE sweep_width(pool, format, pool.patch_min_width, dest)
         IN  IF got.hang THEN got ELSE sweep_formats(pool, k + 1, got.dest)

\* create: the pool after the call, or hang when the call never returns
\* (line 299 is then never reached and features is as it was)
create(pool) ==
    LET got == sweep_formats(pool, 1, <<>>) IN
    [hang |-> got.hang,
     pool |-> IF got.hang THEN pool
              ELSE [pool EXCEPT !.features = @ \o got.dest]]

size(pool) == Len(pool.features)

\* get_feature_vector_dim without the channel count
get_feature_vector_dim_cells(pool, feature_id) ==
    IF ~(feature_id < Len(pool.features))
    THEN [status |-> "OutOfRange", dim |-> 0]
    ELSE LET feature == pool.features[feature_id + 1] IN
         [status |-> "ok",
          dim |-> feature.num_cell_per_col * feature.num_cell_per_row]

\* indexing features past its end panics (index out of bounds)
get_feature_vector_dim(pool, feature_id) ==
    IF ~(feature_id < Len(pool.features))
    THEN [status |-> "OutOfRange", dim |-> 0]
    ELSE LET feature == pool.features[feature_id + 1] IN
         [status |-> "ok",
          dim |-> feature.num_cell_per_col * feature.num_cell_per_row
                      * K_NUM_INT_CHANNEL]

create_feature_pool ==
    LET p0 == FeaturePool_new
        p1 == add_patch_format(p0, 1, 1, 2, 2)
        p2 == add_patch_format(p1, 1, 2, 2, 2)
        p3 == add_patch_format(p2, 2, 1, 2, 2)
        p4 == add_patch_format(p3, 2, 3, 2, 2)
        p5 == add_patch_format(p4, 3, 2, 2, 2)
    IN  create(p5)

----------------------------------------------------------------------------
(* Actions on the pool *)

\* the patch formats a configured pool is given:
\* <<width, height, num_cell_per_row, num_cell_per_col>>
PatchFormatSet == {<<1, 1, 1, 1>>, <<1, 1, 2, 2>>, <<1, 2, 2, 2>>, <<2, 1, 2, 1>>}

AddPatchFormat ==
    /\ pool_pc = "new"
    /\ status = "unconstructed"
    /\ Len(feature_pool.patch_formats) < MaxFormats
    /\ \E f \in PatchFormatSet :
           feature_pool' = add_patch_format(feature_pool, f[1], f[2], f[3], f[4])
    /\ UNCHANGED <<engine_vars, call_vars, feature_vectors,
                   feature_vectors_normalized, feature_valid_indicators,
                   pool_pc, query_id, dim_result>>

Create ==
    /\ pool_pc = "new"
    /\ status = "unconstructed"
    /\ LET got == create(feature_pool) IN
       /\ feature_pool' = got.pool
       /\ pool_pc' = IF got.hang THEN "hang" ELSE "created"
    /\ UNCHANGED <<engine_vars, call_vars, feature_vectors,
                   feature_vectors_normalized, feature_valid_indicators,
                   query_id, dim_result>>

GetFeatureVectorDim ==
    /\ pool_pc \in {"new", "created"}
    /\ status = "unconstructed"
    /\ \E feature_id \in 0..MaxId :
           /\ query_id' = feature_id
           /\ dim_result' = get_feature_vector_dim(feature_pool, feature_id)
    /\ UNCHANGED <<engine_vars, call_vars, feature_pool, feature_vectors,
                   feature_vectors_normalized, feature_valid_indicators,
                   pool_pc>>

(***************************************************************************)
(* SurfMlpFeatureMap::new() (lines 34-61).  It builds its pool with        *)
(* create_feature_pool(): every parameter of FeaturePool::new() is 0.      *)
(* If create returned, the loop at lines 39-43 would assign to             *)
(* feature_vectors[feature_id] of a vector that Vec::with_capacity left    *)
(* empty: an index-out-of-bounds panic for a pool of one Feature or more.  *)
(* The three per-feature vectors are built empty in every case.            *)
(***************************************************************************)
New ==
    /\ status = "unconstructed"
    /\ pool_pc = "new"
    /\ feature_pool = FeaturePool_new
    /\ dim_result.status = "none"
    /\ LET got == create_feature_pool IN
       /\ feature_pool' = got.pool
       /\ pool_pc' = IF got.hang THEN "hang" ELSE "created"
       /\ status' = IF got.hang THEN "hang"
                    ELSE IF size(got.pool) > 0 THEN "index_panic"
                    ELSE "new"
    /\ feature_vectors' = <<>>
    /\ feature_vectors_normalized' = <<>>
    /\ feature_valid_indicators' = <<>>
    /\ UNCHANGED <<engine_vars, in_pixels, in_width, in_height,
                   int_img_masked, calls, query_id, dim_result>>

----------------------------------------------------------------------------
(* Specifications *)

EngineFields ==
    /\ width = NewEngine.width
    /\ height = NewEngine.height
    /\ length = NewEngine.length
    /\ grad_x = NewEngine.grad_x
    /\ grad_y = NewEngine.grad_y
    /\ int_img = NewEngine.int_img
    /\ img_buf = NewEngine.img_buf
    /\ in_pixels = Empty
    /\ in_width = 0
    /\ in_height = 0
    /\ int_img_masked = Empty
    /\ calls = 0
    /\ feature_vectors = <<>>
    /\ feature_vectors_normalized = <<>>
    /\ feature_valid_indicators = <<>>
    /\ pool_pc = "new"
    /\ query_id = 0
    /\ dim_result = [status |-> "none", dim |-> 0]

\* the engine as constructed, no image computed yet
Init ==
    /\ EngineFields
    /\ status = "new"
    /\ feature_pool = FeaturePool_new

Next == Compute

Spec == Init /\ [][Next]_vars

\* pools with positive steps and a sample not smaller than the minimum patch
ConfiguredPools ==
    {[FeaturePool_new EXCEPT
        !.sample_width = sw, !.sample_height = sh,
        !.patch_min_width = mw, !.patch_min_height = mh,
        !.patch_move_step_x = sx, !.patch_move_step_y = sy,
        !.patch_size_inc_step = inc] :
        sw \in (MaxSample - 1)..MaxSample, sh \in (MaxSample - 1)..MaxSample,
        mw \in (MaxMin - 1)..MaxMin, mh \in (MaxMin - 1)..MaxMin,
        sx \in 1..MaxStep, sy \in 1..MaxStep, inc \in 1..MaxStep}

\* a pool before create: as FeaturePool::new() returns it, or configured
InitPool ==
    /\ EngineFields
    /\ status = "unconstructed"
    /\ feature_pool \in {FeaturePool_new} \cup ConfiguredPools

NextPool ==
    \/ AddPatchFormat
    \/ Create
    \/ GetFeatureVectorDim
    \/ New

SpecPool == InitPool /\ [][NextPool]_vars

----------------------------------------------------------------------------
(* Properties of compute (specification Spec) *)

\* intensity of the latest input at row r, column c
I(r, c) == in_pixels[r * width + c]

\* index of channel ch of the pixel at row r, column c
Idx(r, c, ch) == (r * width + c) * K_NUM_INT_CHANNEL + ch

Abs(x) == IF x < 0 THEN 0 - x ELSE x

\* C1: a compute call with width = 0 or height = 0 fails with the
\* invalid-argument panic and leaves width, height, length, grad_x, grad_y,
\* int_img and img_buf exactly as they were.
C1_InvalidArgumentKeepsState ==
    [][(in_width' = 0 \/ in_height' = 0)
         => (status' = "InvalidArgument" /\ UNCHANGED engine_vars)]_vars

\* a failed call on an engine that holds the result of an earlier compute
C1_Witness ==
    /\ status = "InvalidArgument"
    /\ calls > 0
    /\ length > 0
    /\ \E k \in DOMAIN int_img : int_img[k] # 0

RECURSIVE SumCols(_, _, _, _)
SumCols(r, c0, c1, ch) ==
    IF c0 > c1 THEN 0
    ELSE int_img_masked[Idx(r, c0, ch)] + SumCols(r, c0 + 1, c1, ch)

\* brute-force sum of the masked values of channel ch over rows r0..r1 and
\* columns c0..c1
RECURSIVE SumRect(_, _, _, _, _)
SumRect(r0, r1, c0, c1, ch) ==
    IF r0 > r1 THEN 0
    ELSE SumCols(r0, c0, c1, ch) + SumRect(r0 + 1, r1, c0, c1, ch)

\* the integral buffer, zero outside the image
II(r, c, ch) == IF r < 0 \/ c < 0 THEN 0 ELSE int_img[Idx(r, c, ch)]

FourCorner(r0, r1, c0, c1, ch) ==
    II(r1, c1, ch) - II(r0 - 1, c1, ch) - II(r1, c0 - 1, ch)
        + II(r0 - 1, c0 - 1, ch)

\* C2: after a successful compute every entry of the integral buffer is the
\* sum of the masked values above and to the left of it (inclusive), and the
\* four-corner sum over any rectangle is the brute-force sum over it.
C2_IntegralIsPrefixSum ==
    status = "ok" =>
        /\ \A r \in 0..(height - 1), c \in 0..(width - 1),
              ch \in 0..(K_NUM_INT_CHANNEL - 1) :
               int_img[Idx(r, c, ch)] = SumRect(0, r, 0, c, ch)
        /\ \A r0 \in 0..(height - 1), c0 \in 0..(width - 1),
              ch \in 0..(K_NUM_INT_CHANNEL - 1) :
               \A r1 \in r0..(height - 1), c1 \in c0..(width - 1) :
                   FourCorner(r0, r1, c0, c1, ch) = SumRect(r0, r1, c0, c1, ch)

\* a three-row image whose last integral entry sums several nonzero values
C2_Witness ==
    /\ status = "ok"
    /\ height = 3
    /\ int_img_masked[Idx(height - 1, width - 1, 1)] > 0
    /\ int_img_masked[Idx(0, 0, 1)] > 0
    /\ int_img[Idx(height - 1, width - 1, 1)]
         > int_img_masked[Idx(height - 1, width - 1, 1)]
             + int_img_masked[Idx(0, 0, 1)]

\* C3: the mask of pixel i is built from pixel i's own gradients: channels
\* 0,1 kept and 2,3 zeroed when gy[i] >= 0, the reverse when gy[i] < 0;
\* channels 4,5 kept and 6,7 zeroed when gx[i] >= 0, the reverse when
\* gx[i] < 0.
C3_MaskPerPixel ==
    status = "ok" =>
        \A i \in 0..(length - 1) :
            LET gx == grad_x[i]
                gy == grad_y[i]
                m(ch) == int_img_masked[i * K_NUM_INT_CHANNEL + ch]
            IN  /\ m(0) = (IF gy >= 0 THEN gx ELSE 0)
                /\ m(1) = (IF gy >= 0 THEN Abs(gx) ELSE 0)
                /\ m(2) = (IF gy < 0 THEN gx ELSE 0)
                /\ m(3) = (IF gy < 0 THEN Abs(gx) ELSE 0)
                /\ m(4) = (IF gx >= 0 THEN gy ELSE 0)
                /\ m(5) = (IF gx >= 0 THEN Abs(gy) ELSE 0)
                /\ m(6) = (IF gx < 0 THEN gy ELSE 0)
                /\ m(7) = (IF gx < 0 THEN Abs(gy) ELSE 0)

\* C7: every compute call with width > 0 and height > 0 runs to completion
\* and leaves grad_x, grad_y and img_buf with width*height elements and
\* int_img with width*height*8.
C7_ComputeTotal ==
    (status # "new" /\ in_width > 0 /\ in_height > 0) =>
        /\ status = "ok"
        /\ Size(grad_x) = in_width * in_height
        /\ Size(grad_y) = in_width * in_height
        /\ Size(img_buf) = in_width * in_height
        /\ Size(int_img) = in_width * in_height * K_NUM_INT_CHANNEL

\* gx and gy as the boundary-aware centred differences of the input
Gx(r, c) ==
    IF c = 0 THEN 2 * (I(r, 1) - I(r, 0))
    ELSE IF c = width - 1 THEN 2 * (I(r, width - 1) - I(r, width - 2))
    ELSE I(r, c + 1) - I(r, c - 1)

Gy(r, c) ==
    IF r = 0 THEN 2 * (I(1, c) - I(0, c))
    ELSE IF r = height - 1 THEN 2 * (I(height - 1, c) - I(height - 2, c))
    ELSE I(r + 1, c) - I(r - 1, c)

\* C9: after a compute with width >= 2 and height >= 2 every element of
\* grad_x and grad_y is the centred difference of the input, doubled
\* one-sided at the first and last column (row).
C9_GradientRule ==
    (status = "ok" /\ width >= 2 /\ height >= 2) =>
        /\ DOMAIN grad_x = 0..(width * height - 1)
        /\ DOMAIN grad_y = 0..(width * height - 1)
        /\ \A r \in 0..(height - 1), c \in 0..(width - 1) :
               /\ grad_x[r * width + c] = Gx(r, c)
               /\ grad_y[r * width + c] = Gy(r, c)

\* an image with an interior column: nonzero gradients at the interior and
\* the last column and in the last row
C9_Witness ==
    /\ status = "ok"
    /\ width = 3
    /\ grad_x[1] # 0
    /\ grad_x[2] # 0
    /\ grad_y[width] # 0

\* what a freshly constructed engine holds after one compute
FreshCompute(input, w, h) ==
    compute_integral_images(
        compute_gradient_images(reshape(NewEngine, w, h), input))

\* C10: after any sequence of successful computes the width, height, length
\* and every element of grad_x, grad_y and int_img are those of a fresh
\* engine after a single compute with the last call's arguments.
C10_DependsOnlyOnLastCall ==
    status = "ok" =>
        LET f == FreshCompute(in_pixels, in_width, in_height) IN
        /\ width = f.width
        /\ height = f.height
        /\ length = f.length
        /\ grad_x = f.grad_x
        /\ grad_y = f.grad_y
        /\ int_img = f.int_img

\* a second successful compute on an engine, with a nonzero result
C10_Witness ==
    /\ status = "ok"
    /\ calls = 2
    /\ \E k \in DOMAIN int_img : int_img[k] # 0

----------------------------------------------------------------------------
(* Properties of the pool (specification SpecPool) *)

PositiveSteps(pool) ==
    /\ pool.patch_move_step_x > 0
    /\ pool.patch_move_step_y > 0
    /\ pool.patch_size_inc_step > 0

SampleFits(pool) ==
    /\ pool.sample_width >= pool.patch_min_width
    /\ pool.sample_height >= pool.patch_min_height

\* C4: with positive steps and a sample not smaller than the minimum patch,
\* create returns, whatever sizes the formats accept.
C4_CreateTerminates ==
    (pool_pc # "new" /\ PositiveSteps(feature_pool) /\ SampleFits(feature_pool))
        => pool_pc = "created"

\* the values of the swept dimension: minimum, minimum + step, ... <= sample
Swept(pool) ==
    LET lo == IF sweeps_height(pool) THEN pool.patch_min_height
              ELSE pool.patch_min_width
        hi == IF sweeps_height(pool) THEN pool.sample_height
              ELSE pool.sample_width
    IN  {v \in lo..hi : (v - lo) % pool.patch_size_inc_step = 0}

\* the patch size <<width, height>> a format has at swept value v
PatchSize(pool, format, v) ==
    IF sweeps_height(pool)
    THEN <<(v \div format.height) * format.width, v>>
    ELSE <<v, (v \div format.width) * format.height>>

\* the size passes the divisibility and bounds checks
Accepted(pool, format, v) ==
    LET wh == PatchSize(pool, format, v)
        primary == IF sweeps_height(pool) THEN format.height ELSE format.width
    IN  /\ v % primary = 0
        /\ wh[1] % format.num_cell_per_row = 0
        /\ wh[2] % format.num_cell_per_col = 0
        /\ wh[1] >= pool.patch_min_width /\ wh[1] <= pool.sample_width
        /\ wh[2] >= pool.patch_min_height /\ wh[2] <= pool.sample_height

\* every <<format index, swept value, y, x>> the catalog is to hold
Placements(pool) ==
    {t \in (1..Len(pool.patch_formats)) \X Swept(pool)
            \X (0..pool.sample_height) \X (0..pool.sample_width) :
        LET format == pool.patch_formats[t[1]]
            wh == PatchSize(pool, format, t[2])
        IN  /\ Accepted(pool, format, t[2])
            /\ t[3] % pool.patch_move_step_y = 0
            /\ t[3] <= pool.sample_height - wh[2]
            /\ t[4] % pool.patch_move_step_x = 0
            /\ t[4] <= pool.sample_width - wh[1]}

\* the nested order: format, then size, then y, then x
Before(t, u) ==
    \/ t[1] < u[1]
    \/ t[1] = u[1] /\ t[2] < u[2]
    \/ t[1] = u[1] /\ t[2] = u[2] /\ t[3] < u[3]
    \/ t[1] = u[1] /\ t[2] = u[2] /\ t[3] = u[3] /\ t[4] < u[4]

Rank(pool, t) == Cardinality({u \in Placements(pool) : Before(u, t)})

\* C5: after create the catalog holds exactly one Feature per placement, at
\* the position that is the placement's rank in the nested order format,
\* size, y, x, with rectangle (x, y, width, height) and the format's cells.
C5_CatalogOrder ==
    (pool_pc = "created" /\ PositiveSteps(feature_pool)
        /\ SampleFits(feature_pool)) =>
        /\ Len(feature_pool.features) = Cardinality(Placements(feature_pool))
        /\ \A t \in Placements(feature_pool) :
               LET format == feature_pool.patch_formats[t[1]]
                   wh == PatchSize(feature_pool, format, t[2])
               IN  feature_pool.features[Rank(feature_pool, t) + 1] =
                       [patch |-> [x |-> t[4], y |-> t[3],
                                   width |-> wh[1], height |-> wh[2]],
                        num_cell_per_row |-> format.num_cell_per_row,
                        num_cell_per_col |-> format.num_cell_per_col]

\* a catalog of two formats, two sizes of the second one, several rows and
\* columns of placements, and different steps in x and y
C5_Witness ==
    /\ pool_pc = "created"
    /\ Len(feature_pool.patch_formats) = 2
    /\ feature_pool.patch_move_step_x # feature_pool.patch_move_step_y
    /\ LET f == feature_pool.features
           n == Len(f)
       IN  /\ n >= 8
           /\ f[1].num_cell_per_row # f[n].num_cell_per_row
           /\ f[n].patch.width # f[n - 1].patch.width
           /\ \E j \in 1..n : f[j].patch.x > 0 /\ f[j].patch.y = 0
           /\ \E j \in 1..n : f[j].patch.y > 0 /\ f[j].patch.x = 0

\* C6: SurfMlpFeatureMap::new() returns an engine whose three per-feature
\* vectors have one entry per Feature of its pool.
C6_NewReturnsSizedStorage ==
    status # "unconstructed" =>
        /\ status = "new"
        /\ pool_pc = "created"
        /\ Len(feature_vectors) = size(feature_pool)
        /\ Len(feature_vectors_normalized) = size(feature_pool)
        /\ Len(feature_valid_indicators) = size(feature_pool)

\* C8: get_feature_vector_dim(id) returns cells per row * cells per column
\* * 8 of the Feature at position id when id < size(), fails as out of
\* range when id >= size(), and leaves the pool as it was.
C8_FeatureVectorDim ==
    [][<<query_id, dim_result>>' # <<query_id, dim_result>> =>
        /\ UNCHANGED <<feature_pool, pool_pc>>
        /\ LET f == feature_pool.features IN
           IF query_id' < Len(f)
           THEN dim_result' =
                    [status |-> "ok",
                     dim |-> f[query_id' + 1].num_cell_per_row
                               * f[query_id' + 1].num_cell_per_col * 8]
           ELSE dim_result'.status = "OutOfRange"]_vars

\* a 2x2-cell Feature answered with 32, in a catalog that also holds a
\* 1x1-cell Feature and has fewer than MaxId entries
C8_Witness ==
    /\ pool_pc = "created"
    /\ dim_result = [status |-> "ok", dim |-> 32]
    /\ query_id > 0
    /\ query_id < Len(feature_pool.features)
    /\ Len(feature_pool.features) <= MaxId
    /\ feature_pool.features[1].num_cell_per_row = 1

\* an id at or past the end of a catalog that is not empty
C8_WitnessOutOfRange ==
    /\ pool_pc = "created"
    /\ dim_result.status = "OutOfRange"
    /\ Len(feature_pool.features) > 0
    /\ query_id >= Len(feature_pool.features)

====
